---- MODULE Spec2Model ----
(***************************************************************************)
(* Model of src/minesweeper.py: the Minesweeper board (ground truth), the  *)
(* Sentence class and the MinesweeperAI knowledge engine (add_knowledge,   *)
(* make_safe_move, make_random_move).                                      *)
(*                                                                         *)
(* A cell is a pair <<i, j>>.  A Sentence is a record                      *)
(* [cells |-> set of cells, count |-> integer].  self.knowledge is a       *)
(* Python list, modelled as a sequence: the order matters because          *)
(* add_knowledge removes entries from the list it is iterating over.       *)
(***************************************************************************)
EXTENDS Integers, Sequences, FiniteSets, TLC

VARIABLES
    height, width,  \* the configured size of the board and of the AI
    board,          \* Minesweeper.mines: the cells that hold a mine
    moves_made,     \* MinesweeperAI.moves_made
    mines,          \* MinesweeperAI.mines
    safes,          \* MinesweeperAI.safes
    knowledge,      \* MinesweeperAI.knowledge
    appended,       \* self.knowledge at line 202 of the last add_knowledge
    held,           \* self.knowledge at line 204 of the last add_knowledge
    last,           \* the method called last
    ret             \* what it returned

vars == <<height, width, board, moves_made, mines, safes, knowledge,
          appended, held, last, ret>>

(***************************************************************************)
(* Bounds of the model and constants of the program                        *)
(***************************************************************************)
\* largest number of cells of a board of the specification Spec
MaxCells == 6

\* largest number of cells without a mine, hence of observations, in Spec
MaxSafe == 4

\* height, number of mines and number of observations of the boards wider
\* than the hard-coded grid (specification SpecWide)
WideHeight == 2
MaxWideMines == 1
MaxWideObs == 3

\* largest reported count and number of observations when the reported
\* counts are arbitrary (specification SpecAny)
MaxAnyCount == 3
MaxAnyObs == 2

\* range(0,8) in get_nearby_cells
GridLimit == 8

\* self.MINE_COUNT
MINE_COUNT == 8

NoCell == <<-1, -1>>

(***************************************************************************)
(* Minesweeper (the board)                                                 *)
(***************************************************************************)
BoardCells(h, w) == (0 .. h - 1) \X (0 .. w - 1)

\* the 3x3 block around the cell, as the two range() loops enumerate it
Block(cell) == (cell[1] - 1 .. cell[1] + 1) \X (cell[2] - 1 .. cell[2] + 1)

is_mine(cell) == cell \in board

nearby_mines(cell) ==
    Cardinality({c \in Block(cell) :
                    /\ c # cell
                    /\ 0 <= c[1] /\ c[1] < height
                    /\ 0 <= c[2] /\ c[2] < width
                    /\ c \in board})

(***************************************************************************)
(* Sentence                                                                *)
(***************************************************************************)
Sentence(cells, count) == [cells |-> cells, count |-> count]

\* __sub__ that forgets to subtract the counts
Sub_keep_count(a, b) == Sentence(a.cells \ b.cells, a.count)

\* __sub__
Sub(a, b) == Sentence(a.cells \ b.cells, a.count - b.count)

\* known_mines / known_safes return self.cells or None; the callers only
\* test the result for truth and iterate over it, and both None and the
\* empty set are false, so {} stands for None here.
known_mines(s) == IF s.count = Cardinality(s.cells) THEN s.cells ELSE {}

known_safes(s) == IF s.count = 0 THEN s.cells ELSE {}

Sentence_mark_mine(s, cell) ==
    IF cell \in s.cells THEN Sentence(s.cells \ {cell}, s.count - 1) ELSE s

Sentence_mark_safe(s, cell) ==
    IF cell \in s.cells THEN Sentence(s.cells \ {cell}, s.count) ELSE s

(***************************************************************************)
(* MinesweeperAI helpers                                                   *)
(***************************************************************************)
\* the for loop of MinesweeperAI.mark_mine / mark_safe over a list K
mark_mine(K, cell) == [k \in DOMAIN K |-> Sentence_mark_mine(K[k], cell)]

\* mark_safe that leaves the sentences as they are
mark_safe_skip(K, cell) == K

mark_safe(K, cell) == [k \in DOMAIN K |-> Sentence_mark_safe(K[k], cell)]

RECURSIVE mark_mines(_, _)
mark_mines(K, cells) ==
    IF cells = {} THEN K
    ELSE LET c == CHOOSE x \in cells : TRUE
         IN  mark_mines(mark_mine(K, c), cells \ {c})

RECURSIVE mark_safes(_, _)
mark_safes(K, cells) ==
    IF cells = {} THEN K
    ELSE LET c == CHOOSE x \in cells : TRUE
         IN  mark_safes(mark_safe(K, c), cells \ {c})

\* "x in list" with Sentence.__eq__ (value equality of cells and count)
InList(s, K) == \E k \in DOMAIN K : K[k] = s

\* the loop of remove_duplicates: unique_list after the entries of K
RECURSIVE unique_list(_, _)
unique_list(K, acc) ==
    IF K = <<>> THEN acc
    ELSE unique_list(Tail(K),
                     IF InList(Head(K), acc) THEN acc ELSE Append(acc, Head(K)))

\* remove_duplicates that keeps every entry
remove_duplicates_keep(duplicates) == duplicates

remove_duplicates(duplicates) == unique_list(duplicates, <<>>)

get_nearby_cells(cell) ==
    {c \in Block(cell) :
        /\ c[1] \in 0 .. GridLimit - 1
        /\ c[2] \in 0 .. GridLimit - 1
        /\ c # cell}

\* list.remove(x): drops the first entry equal to x
ListRemove(K, x) ==
    IF ~InList(x, K) THEN K
    ELSE LET k == CHOOSE i \in DOMAIN K :
                     K[i] = x /\ \A j \in 1 .. i - 1 : K[j] # x
         IN  SubSeq(K, 1, k - 1) \o SubSeq(K, k + 1, Len(K))

(***************************************************************************)
(* MinesweeperAI.add_knowledge                                             *)
(***************************************************************************)
\* lines 190-196: one pass over the existing sentences, in list order
RECURSIVE additional_loop(_, _, _)
additional_loop(K, sentence, acc) ==
    IF K = <<>> THEN acc
    ELSE additional_loop(Tail(K), sentence,
            IF sentence.cells \subseteq Head(K).cells
               THEN Append(acc, Sub(Head(K), sentence))
            ELSE IF Head(K).cells \subseteq sentence.cells
               THEN Append(acc, Sub(sentence, Head(K)))
            ELSE acc)

additional_sentences(K, sentence) == additional_loop(K, sentence, <<>>)

\* lines 198-200: append each additional sentence no entry is equal to
RECURSIVE append_additional(_, _)
append_additional(K, adds) ==
    IF adds = <<>> THEN K
    ELSE append_additional(IF InList(Head(adds), K) THEN K
                           ELSE Append(K, Head(adds)),
                           Tail(adds))

\* lines 184-202: self.knowledge once the new sentence is appended
Appended(K, moves, cell, count) ==
    LET K1 == mark_safe(K, cell)
        free_neighbours == get_nearby_cells(cell) \ moves
        sentence == Sentence(free_neighbours, count)
        K2 == append_additional(K1, additional_sentences(K1, sentence))
    IN  Append(K2, sentence)

\* lines 208-217: the for loop over new_knowledge.  i is the position of
\* the list iterator; an entry removed at or before i shifts the rest left
\* while the iterator still advances.  old is self.knowledge, the list the
\* marks are applied to; new_knowledge is its deep copy and is only ever
\* shortened.
RECURSIVE Sweep(_, _, _, _, _)
Sweep(new_knowledge, old, i, m, s) ==
    IF i > Len(new_knowledge)
       THEN [knowledge |-> new_knowledge, old |-> old, mines |-> m, safes |-> s]
    ELSE LET sentence == new_knowledge[i]
             km == known_mines(sentence)
             ks == known_safes(sentence)
             nk1 == IF km # {} THEN ListRemove(new_knowledge, sentence)
                    ELSE new_knowledge
             old1 == IF km # {} THEN mark_mines(old, km) ELSE old
         IN  Sweep(IF ks # {} THEN ListRemove(nk1, sentence) ELSE nk1,
                   IF ks # {} THEN mark_safes(old1, ks) ELSE old1,
                   i + 1,
                   IF km # {} THEN m \cup km ELSE m,
                   IF ks # {} THEN s \cup ks ELSE s)

\* self.safes.add(cell) that adds nothing
safes_add_skip(S, cell) == S

\* self.safes.add(cell) in MinesweeperAI.mark_safe
safes_add(S, cell) == S \cup {cell}

add_knowledge(cell, count) ==
    \E A \in {Appended(knowledge, moves_made \cup {cell}, cell, count)} :
    \E K \in {remove_duplicates(A)} :
    \E r \in {Sweep(K, K, 1, mines, safes_add(safes, cell))} :
        /\ moves_made' = moves_made \cup {cell}
        /\ appended' = A
        /\ held' = K
        /\ knowledge' = r.knowledge
        /\ mines' = r.mines
        /\ safes' = r.safes
        /\ last' = "add_knowledge"
        /\ ret' = [kind |-> "None", cell |-> cell]
        /\ UNCHANGED <<height, width, board>>

(***************************************************************************)
(* Move selection                                                          *)
(***************************************************************************)
\* make_safe_move that also records the move it proposes
make_safe_move_records ==
    LET safe_moves == safes \ moves_made
    IN  /\ \/ /\ safe_moves # {}
              /\ \E c \in safe_moves :
                    /\ ret' = [kind |-> "cell", cell |-> c]
                    /\ moves_made' = moves_made \cup {c}
           \/ /\ safe_moves = {}
              /\ ret' = [kind |-> "None", cell |-> NoCell]
              /\ moves_made' = moves_made
        /\ last' = "make_safe_move"
        /\ UNCHANGED <<height, width, board, mines, safes,
                       knowledge, appended, held>>

\* list(set)[0]: the order of a set is unspecified, any candidate may come first
make_safe_move ==
    LET safe_moves == safes \ moves_made
    IN  /\ \/ /\ safe_moves # {}
              /\ \E c \in safe_moves : ret' = [kind |-> "cell", cell |-> c]
           \/ /\ safe_moves = {}
              /\ ret' = [kind |-> "None", cell |-> NoCell]
        /\ last' = "make_safe_move"
        /\ UNCHANGED <<height, width, board, moves_made, mines, safes,
                       knowledge, appended, held>>

all_cells ==
    {<<x \div width, x % height>> : x \in 0 .. width * height - 1}

\* the candidates without the known mines taken out
possible_with_mines == all_cells \ moves_made

possible == (all_cells \ moves_made) \ mines

\* random.choice raises IndexError on an empty list
make_random_move ==
    /\ IF Cardinality(mines) < MINE_COUNT
          THEN \/ /\ possible # {}
                  /\ \E c \in possible : ret' = [kind |-> "cell", cell |-> c]
               \/ /\ possible = {}
                  /\ ret' = [kind |-> "IndexError", cell |-> NoCell]
          ELSE ret' = [kind |-> "None", cell |-> NoCell]
    /\ last' = "make_random_move"
    /\ UNCHANGED <<height, width, board, moves_made, mines, safes,
                   knowledge, appended, held>>

(***************************************************************************)
(* Specifications                                                          *)
(***************************************************************************)
InitAI ==
    /\ moves_made = {}
    /\ mines = {}
    /\ safes = {}
    /\ knowledge = <<>>
    /\ appended = <<>>
    /\ held = <<>>
    /\ last = "init"
    /\ ret = [kind |-> "None", cell |-> NoCell]

\* a board of any shape with at most MaxCells cells that the grid of
\* get_nearby_cells covers, with any mine set that leaves at most MaxSafe
\* cells to reveal
Init ==
    /\ height \in 1 .. GridLimit
    /\ width \in 1 .. GridLimit
    /\ height * width <= MaxCells
    /\ board \in SUBSET BoardCells(height, width)
    /\ Cardinality(BoardCells(height, width) \ board) <= MaxSafe
    /\ InitAI

\* the environment reveals a cell that is not a mine, once, and reports its
\* true count
Observe ==
    \E cell \in BoardCells(height, width) \ moves_made :
        /\ ~is_mine(cell)
        /\ add_knowledge(cell, nearby_mines(cell))

SafeMove == make_safe_move

RandomMove == make_random_move

Next == Observe \/ SafeMove \/ RandomMove

Spec == Init /\ [][Next]_vars

\* boards one column wider than the grid get_nearby_cells assumes, with at
\* most MaxWideMines mines and MaxWideObs observations
InitWide ==
    /\ height \in 1 .. WideHeight
    /\ width = GridLimit + 1
    /\ board \in SUBSET BoardCells(height, width)
    /\ Cardinality(board) <= MaxWideMines
    /\ InitAI

ObserveWide ==
    /\ Cardinality(moves_made) < MaxWideObs
    /\ Observe

NextWide == ObserveWide \/ SafeMove

SpecWide == InitWide /\ [][NextWide]_vars

\* the caller reports any count, true or not, for the cell it reveals
ObserveAny ==
    /\ Cardinality(moves_made) < MaxAnyObs
    /\ \E cell \in BoardCells(height, width) \ moves_made :
       \E count \in 0 .. MaxAnyCount :
           /\ ~is_mine(cell)
           /\ add_knowledge(cell, count)

NextAny == ObserveAny

SpecAny == Init /\ [][NextAny]_vars

(***************************************************************************)
(* Properties                                                              *)
(***************************************************************************)
Range(K) == {K[k] : k \in DOMAIN K}

Grid == BoardCells(height, width)

WellFormed(s) == 0 <= s.count /\ s.count <= Cardinality(s.cells)

\* C1: knownMines and knownSafes have no cell in common after any sequence
\* of truthful observations of non-mine cells.
C1_Disjoint == mines \cap safes = {}

\* C2: every constraint the engine holds, the derived ones included,
\* satisfies 0 <= count <= |cells|.
C2_ConstraintInvariant ==
    \A s \in Range(appended) \cup Range(held) \cup Range(knowledge) :
        WellFormed(s)

\* C3: after every observe call no cell of knownMines or knownSafes appears
\* in the cell set of a constraint still held.
C3_Purged ==
    \A s \in Range(knowledge) : s.cells \cap (mines \cup safes) = {}

\* a constraint after every cell known at the return has been taken out
Reduced(s) ==
    Sentence((s.cells \ mines) \ safes,
             s.count - Cardinality(s.cells \cap mines))

\* C4: when observe returns, every constraint it held with count = 0 has
\* its cells in knownSafes and every one with count = |cells| has them in
\* knownMines, also when the constraint is resolved only by the other
\* resolutions of the call.
C4_Closure ==
    last = "add_knowledge" =>
        \A s \in Range(held) :
            /\ s.count = 0 => s.cells \subseteq safes
            /\ s.count = Cardinality(s.cells) => s.cells \subseteq mines
            /\ Reduced(s).count = 0 => Reduced(s).cells = {}
            /\ Reduced(s).count = Cardinality(Reduced(s).cells)
                  => Reduced(s).cells = {}

\* C5: after every observe call constraints has no two entries with equal
\* cell sets and equal counts.
C5_NoDuplicates ==
    \A i, j \in DOMAIN knowledge : i # j => knowledge[i] # knowledge[j]

\* an observe call in which remove_duplicates dropped an entry and left
\* several constraints
C5_Witness ==
    /\ last = "add_knowledge"
    /\ Len(held) < Len(appended)
    /\ Len(knowledge) >= 2

totalMineCount == Cardinality(board)

\* C7: chooseRandomMove returns none once |knownMines| equals the number
\* of mines configured for the board, and not for that reason below it.
C7_RandomCutoff ==
    last = "make_random_move" =>
        /\ Cardinality(mines) = totalMineCount => ret.kind = "None"
        /\ (Cardinality(mines) < totalMineCount /\ possible # {})
              => ret.kind # "None"

\* C8: a cell returned by chooseRandomMove is neither in knownMines nor in
\* movesMade.
C8_RandomMove ==
    (last = "make_random_move" /\ ret.kind = "cell") =>
        ret.cell \notin mines \cup moves_made

\* a random move made when there are known mines and moves
C8_Witness ==
    /\ last = "make_random_move"
    /\ ret.kind = "cell"
    /\ mines # {}
    /\ moves_made # {}
    /\ all_cells \cap mines # {}

\* C9: for any height and width the cells chooseRandomMove can return are
\* exactly the cells of the grid that are not in movesMade or knownMines.
C9_Candidates ==
    last = "make_random_move" =>
        /\ possible = (Grid \ moves_made) \ mines
        /\ ret.kind = "cell" => ret.cell \in Grid

C11_MovesSafe == moves_made \subseteq safes

\* several cells have been observed
C11_Witness ==
    /\ last = "add_knowledge"
    /\ Cardinality(moves_made) >= 2

\* C12: every cell of a constraint, of knownSafes or of knownMines lies in
\* the height x width grid the engine was configured with.
C12_InGrid ==
    /\ \A s \in Range(knowledge) : s.cells \subseteq Grid
    /\ safes \subseteq Grid
    /\ mines \subseteq Grid

\* the new sentence of the last add_knowledge: the entry appended at line 202
NewSentence == appended[Len(appended)]

\* the 1x3 board with its single mine at (0,2)
Board1x3 == height = 1 /\ width = 3 /\ board = {<<0, 2>>}

\* C13: on the 1x3 board with the mine at (0,2), observe((0,0), 0) makes a
\* constraint over {(0,1)} and marks (0,1) safe, and the following
\* observe((0,1), 1) marks (0,2) a mine.
C13_Scenario ==
    (Board1x3 /\ last = "add_knowledge") =>
        /\ (moves_made = {<<0, 0>>}) =>
              /\ NewSentence.cells = {<<0, 1>>}
              /\ <<0, 1>> \in safes
        /\ (moves_made = {<<0, 0>>, <<0, 1>>} /\ ret.cell = <<0, 1>>) =>
              <<0, 2>> \in mines

\* the sentences add_knowledge compares the new one with: self.knowledge
\* once the observed cell is marked safe
Existing(cell) == Range(mark_safe(knowledge, cell))

\* C14: when the new constraint and an existing one have nested cell sets
\* and equal counts, the derived difference has count 0 and every cell of
\* the set difference is in knownSafes when observe returns.
C14_EqualCounts ==
    [][(last' = "add_knowledge" /\ moves_made' # moves_made) =>
          \A k \in Existing(ret'.cell) :
              LET new == NewSentence'
              IN  /\ (new.cells \subseteq k.cells /\ new.count = k.count) =>
                        /\ Sub(k, new).count = 0
                        /\ k.cells \ new.cells \subseteq safes'
                  /\ (k.cells \subseteq new.cells /\ new.count = k.count) =>
                        /\ Sub(new, k).count = 0
                        /\ new.cells \ k.cells \subseteq safes']_vars

\* an invariant of the engine is broken: a constraint of the call has a
\* count outside 0 .. |cells|, or a cell is both a known mine and known safe
Inconsistent ==
    \/ \E s \in Range(appended) \cup Range(knowledge) : ~WellFormed(s)
    \/ mines \cap safes # {}

\* C15: an observe call that produces a constraint with count < 0 or
\* count > |cells|, or a cell in both knownMines and knownSafes, ends in a
\* fatal error instead of storing it and returning normally.
C15_FatalError ==
    (last = "add_knowledge" /\ Inconsistent) => ret.kind \notin {"None", "cell"}

\* a constraint that is resolved and still names cells
Resolved(s) ==
    s.cells # {} /\ (s.count = 0 \/ s.count = Cardinality(s.cells))

\* C16: when observe returns, constraints holds no constraint with a
\* non-empty cell set whose count is 0 or |cells|.
C16_FixedPoint == \A s \in Range(knowledge) : ~Resolved(s)

\* C17: on a board within 8x8, with true counts, every known mine is a
\* mine, no known safe cell is a mine, and the count of every held
\* constraint is the number of mines among its cells.
C17_Sound ==
    /\ mines \subseteq board
    /\ safes \cap board = {}
    /\ \A s \in Range(knowledge) : s.count = Cardinality(s.cells \cap board)

\* mines and safe cells have been deduced and a constraint with mines is held
C17_Witness ==
    /\ last = "add_knowledge"
    /\ mines # {}
    /\ safes \ moves_made # {}
    /\ \E s \in Range(knowledge) : s.count >= 1

\* C18: after every observe call no cell of movesMade appears in the cell
\* set of a held constraint.
C18_NoMovedCell ==
    \A s \in Range(knowledge) : s.cells \cap moves_made = {}

\* a held constraint made of neighbours of an observed cell c, one of whose
\* other neighbours has been observed too
C18_Witness ==
    /\ last = "add_knowledge"
    /\ \E s \in Range(knowledge) : \E c, m \in moves_made :
          /\ s.cells # {}
          /\ s.cells \subseteq get_nearby_cells(c)
          /\ m \in get_nearby_cells(c)

\* C19: movesMade, knownMines and knownSafes never lose a cell, and the two
\* move-selection queries change none of movesMade, knownMines, knownSafes
\* and constraints.
C19_Monotone ==
    [][/\ moves_made \subseteq moves_made'
       /\ mines \subseteq mines'
       /\ safes \subseteq safes'
       /\ last' \in {"make_safe_move", "make_random_move"} =>
             UNCHANGED <<moves_made, mines, safes, knowledge>>]_vars

\* a query answered with a cell while knowledge has been gathered
C19_Witness ==
    /\ last \in {"make_safe_move", "make_random_move"}
    /\ ret.kind = "cell"
    /\ moves_made # {}
    /\ safes \ moves_made # {}
    /\ knowledge # <<>>

====
